---- MODULE Spec2Model ----
(***************************************************************************)
(* SearchBar (src/components/SearchBar.tsx): an animated search input.     *)
(*                                                                         *)
(* The widget keeps three shared values (containerWidth, cancelButtonWidth,*)
(* isFocused), a reference to the native text field and the props the host *)
(* rendered it with.  Every handler of the component is one action; the    *)
(* native text field reports focus changes through queued events, and the  *)
(* animation scheduler advances a running withTiming animation frame by    *)
(* frame.                                                                  *)
(*                                                                         *)
(* isFocused is a fixed-point number: the integer x stands for x / Unit.   *)
(* Widths computed from it are kept in the same scale (w stands for        *)
(* w / Unit), so that the interpolation is exact.                          *)
(***************************************************************************)
EXTENDS Integers, Sequences, FiniteSets, TLC

----------------------------------------------------------------------------
(* Bounds of the model *)

\* resolution of the fixed-point representation of isFocused (1.0 == Unit)
Unit == 4
\* milliseconds between two frames of the animation scheduler
FrameMs == 150
\* focus/blur events the text field may have emitted and not yet delivered
MaxPending == 2

\* widths a layout pass of the outer container may report
ContainerWidths == {0, 300}
\* widths a layout pass of the cancel button may report
ButtonWidths == {0, 80, 90}
\* the absent value (undefined) of an optional string
ABSENT == "<undefined>"
\* texts the user may have in the field
Texts == {"", "abc"}
\* values of the optional prop `value`
Values == {ABSENT, "abc"}

----------------------------------------------------------------------------
(* State *)

VARIABLES
    value,              \* the prop `value` of the last render
    given,              \* whether the optional callback the last handler reads was provided
    containerWidth,     \* useSharedValue(0)
    cancelButtonWidth,  \* useSharedValue(0)
    isFocused,          \* useSharedValue(0), in 1/Unit
    anim,               \* the animation assigned to isFocused by withTiming
    focused,            \* whether the native text field (textInputRef) has focus
    pending,            \* focus/blur events emitted by the field, not yet handled
    text,               \* the text held by the native text field
    error,              \* a handler threw (call of an absent callback)
    lastHandler,        \* the handler of the component that ran in the last step,
                        \* "none" when the step ran none
    trace,              \* the calls made by that handler, in order
    lastLayout,         \* <<width>> of the last layout pass of the container, if any
    buttonMeasured,     \* the cancel button has had a layout pass
    reported,           \* <<width>> reported by the last step, when that step was
                        \* a layout pass of the cancel button
    lastFocusEvent      \* the last focus event handled: "none", "focus", "blur"

vars == <<value, given, containerWidth, cancelButtonWidth, isFocused, anim, focused,
          pending, text, error, lastHandler, trace, lastLayout,
          buttonMeasured, reported, lastFocusEvent>>

\* the shared values, the text field's focus and the calls made so far, as one
\* record that the statements of a handler transform one after the other
St == [containerWidth |-> containerWidth, cancelButtonWidth |-> cancelButtonWidth,
       isFocused |-> isFocused, anim |-> anim, focused |-> focused,
       pending |-> pending, error |-> FALSE, trace |-> <<>>]

\* no animation assigned: the shared value rests at v
Idle(v) == [toValue |-> v, startValue |-> v, elapsed |-> 0, duration |-> 0,
            running |-> FALSE]

\* a shared value whose animation is in flight is heading to anim.toValue
Target(s) == s.anim.toValue

----------------------------------------------------------------------------
(* Statements *)

\* one call made by a handler: what was called, its argument, and the target
\* isFocused is heading to at that moment
Entry(s, call, arg) == [call |-> call, arg |-> arg, target |-> Target(s)]

\* name(arg) for a callback taken from the props, where `provided` tells
\* whether the host provided it: the call of an absent callback throws, which
\* ends the handler
Call(s, name, provided, arg) ==
    IF s.error THEN s
    ELSE IF provided THEN [s EXCEPT !.trace = Append(@, Entry(s, name, arg))]
    ELSE [s EXCEPT !.error = TRUE]

\* a mutant of OptionalCall: the callback is called whether present or not
OptionalCall_unguarded(s, name, provided, arg) == Call(s, name, provided, arg)

\* name?.(arg), if (name) name(): the call is skipped when the prop is absent
OptionalCall(s, name, provided, arg) ==
    IF provided THEN Call(s, name, provided, arg) ELSE s

\* a mutant of withTiming: the value is set at once (the fallback left in the
\* source as a comment), no animation is started
withTiming_instant(s, toValue, duration) ==
    IF s.error THEN s
    ELSE [s EXCEPT !.isFocused = toValue * Unit, !.anim = Idle(toValue * Unit)]

\* a mutant of withTiming: the animation in flight is not dropped, the new one
\* starts where the old one was heading
withTiming_stacked(s, toValue, duration) ==
    IF s.error THEN s
    ELSE LET a == [toValue |-> toValue * Unit, startValue |-> s.anim.toValue,
                   elapsed |-> 0, duration |-> duration, running |-> TRUE]
             t == [s EXCEPT !.anim = a]
         IN  [t EXCEPT !.trace = Append(@, Entry(t, "withTiming", "-"))]

\* isFocused.value = withTiming(toValue, {duration}): the animation in flight,
\* if any, is dropped and a new one starts from the current value
withTiming(s, toValue, duration) ==
    IF s.error THEN s
    ELSE LET a == [toValue |-> toValue * Unit, startValue |-> s.isFocused,
                   elapsed |-> 0, duration |-> duration, running |-> TRUE]
             t == [s EXCEPT !.anim = a]
         IN  [t EXCEPT !.trace = Append(@, Entry(t, "withTiming", "-"))]

\* a mutant of TextInputBlur: a blur event is emitted whether the field had
\* the focus or not
TextInputBlur_always(s) ==
    IF s.error THEN s
    ELSE [s EXCEPT !.trace = Append(@, Entry(s, "blur", "-")),
                   !.focused = FALSE, !.pending = Append(@, "blur")]

\* textInputRef.current?.blur(): a focused field loses focus and emits a blur
\* event; on a field without focus nothing happens
TextInputBlur(s) ==
    IF s.error THEN s
    ELSE LET t == [s EXCEPT !.trace = Append(@, Entry(s, "blur", "-"))]
         IN  IF s.focused
             THEN [t EXCEPT !.focused = FALSE, !.pending = Append(@, "blur")]
             ELSE t

\* textInputRef.current?.focus(): a field without focus gains it and emits a
\* focus event
TextInputFocus(s) ==
    IF s.error THEN s
    ELSE LET t == [s EXCEPT !.trace = Append(@, Entry(s, "focus", "-"))]
         IN  IF ~s.focused
             THEN [t EXCEPT !.focused = TRUE, !.pending = Append(@, "focus")]
             ELSE t

----------------------------------------------------------------------------
(* Handlers of the component *)

MARGIN_LEFT_BUTTON == 10

\* a mutant of onPressClear: clear also takes the focus away, as cancel does
onPressClear_blurs(s) == TextInputBlur(Call(s, "onChangeText", TRUE, ABSENT))

\* onChangeText is a required prop
onPressClear(s) == Call(s, "onChangeText", TRUE, ABSENT)

\* a mutant of onPressCancel: the focus is removed before onCancel is called
onPressCancel_blurFirst(s, onCancel) ==
    OptionalCall(TextInputBlur(Call(s, "onChangeText", TRUE, ABSENT)),
                 "onCancel", onCancel, "-")

\* onCancel, onFocus, onBlur: whether the host provided that callback
onPressCancel(s, onCancel) ==
    TextInputBlur(OptionalCall(Call(s, "onChangeText", TRUE, ABSENT),
                               "onCancel", onCancel, "-"))

\* a mutant of onLayout: the width is captured once, as the button's is
onLayout_once(s, width) ==
    IF s.containerWidth = 0 THEN [s EXCEPT !.containerWidth = width] ELSE s

\* a mutant of onLayout: the handler of the container writes both widths
onLayout_bothWidths(s, width) ==
    [s EXCEPT !.containerWidth = width, !.cancelButtonWidth = width]

onLayout(s, width) == [s EXCEPT !.containerWidth = width]

\* a mutant of onButtonLayout: the guard is forgotten, every pass is stored
onButtonLayout_always(s, width) == [s EXCEPT !.cancelButtonWidth = width]

\* !cancelButtonWidth.value holds of 0: the width is stored while none (or 0)
\* has been stored
onButtonLayout(s, width) ==
    IF s.cancelButtonWidth = 0 THEN [s EXCEPT !.cancelButtonWidth = width] ELSE s

\* a mutant of focus: the touch is swallowed and the field is not focused
focus_preventOnly(s) == s

\* onTouchStart of the input container
focus(s) == TextInputFocus(s)

\* a mutant of onInputFocus: the animation is started before onFocus is called
onInputFocus_animateFirst(s, onFocus) ==
    OptionalCall(withTiming(s, 1, 300), "onFocus", onFocus, "event")

\* a mutant of onInputFocus: onFocus is forwarded and the target is left alone
onInputFocus_noAnimation(s, onFocus) == OptionalCall(s, "onFocus", onFocus, "event")

onInputFocus(s, onFocus) ==
    withTiming(OptionalCall(s, "onFocus", onFocus, "event"), 1, 300)

\* a mutant of onInputBlur: onBlur is forwarded and no animation is started
onInputBlur_noAnimation(s, onBlur) == OptionalCall(s, "onBlur", onBlur, "event")

onInputBlur(s, onBlur) ==
    withTiming(OptionalCall(s, "onBlur", onBlur, "event"), 0, 300)

\* a mutant of onSubmitEditing: the component wraps the handler and takes the
\* focus away after forwarding
onSubmitEditing_blurs(s, provided) ==
    TextInputBlur(OptionalCall(s, "onSubmitEditing", provided, "-"))

\* onSubmitEditing={onSubmitEditing}: the prop is handed to the text field as
\* it is, and the field calls it on submit when it was provided
onSubmitEditing(s, provided) == OptionalCall(s, "onSubmitEditing", provided, "-")

----------------------------------------------------------------------------
(* Animated styles, recomputed whenever a shared value changes *)

\* interpolate(x, [in0, in1], [out0, out1]) of react-native-reanimated, which
\* extends the line beyond the input range; x and the result are in 1/Unit
interpolate(x, inputRange, outputRange) ==
    outputRange[1] * Unit
    + ((x - inputRange[1] * Unit) * (outputRange[2] - outputRange[1]))
      \div (inputRange[2] - inputRange[1])

\* a mutant of animatedStyle: the margin left of the button is forgotten
animatedStyle_noMargin(s) ==
    [width |-> interpolate(s.isFocused, <<0, 1>>,
                           <<s.containerWidth,
                             s.containerWidth - s.cancelButtonWidth>>),
     borderWidth |-> s.isFocused]

\* a mutant of animatedStyle: the input container grows by the room of the
\* button instead of giving it up
animatedStyle_grows(s) ==
    [width |-> interpolate(s.isFocused, <<0, 1>>,
                           <<s.containerWidth,
                             s.containerWidth + s.cancelButtonWidth
                               + MARGIN_LEFT_BUTTON>>),
     borderWidth |-> s.isFocused]

\* animatedStyle: the style of the input container
animatedStyle(s) ==
    [width |-> interpolate(s.isFocused, <<0, 1>>,
                           <<s.containerWidth,
                             s.containerWidth - s.cancelButtonWidth
                               - MARGIN_LEFT_BUTTON>>),
     borderWidth |-> s.isFocused]

\* wrapperStyle: the style of the wrapper of the field and the cancel button
wrapperStyle(s) == [opacity |-> IF s.containerWidth # 0 THEN 1 ELSE 0]

\* value ? <Pressable clear/> : null -- a string is truthy when non-empty
ClearRendered == value # ABSENT /\ value # ""

\* defaultValue={value}: the text a field shows for a default value
DefaultText(v) == IF v = ABSENT THEN "" ELSE v

----------------------------------------------------------------------------
(* The animation scheduler *)

\* Easing.inOut(Easing.quad), the default easing of withTiming, at
\* elapsed / duration, as a numerator over duration^2
Easing(elapsed, duration) ==
    IF 2 * elapsed < duration
    THEN 2 * elapsed * elapsed
    ELSE duration * duration - 2 * (duration - elapsed) * (duration - elapsed)

\* a mutant of Frame: the last frame leaves the value one step short of toValue
Frame_short(s, dt) ==
    LET a == s.anim
        e == a.elapsed + dt
    IN  IF e >= a.duration
        THEN [s EXCEPT !.isFocused = IF a.toValue > 0 THEN a.toValue - 1 ELSE 1,
                       !.anim = Idle(a.toValue)]
        ELSE [s EXCEPT !.anim.elapsed = e]

\* a mutant of Frame: an easing that overshoots, the value passes toValue by
\* the distance still to go before it rests
Frame_overshoot(s, dt) ==
    LET a == s.anim
        e == a.elapsed + dt
    IN  IF e >= a.duration
        THEN [s EXCEPT !.isFocused = a.toValue, !.anim = Idle(a.toValue)]
        ELSE [s EXCEPT !.isFocused = 2 * a.toValue - s.isFocused
                                     + (IF a.toValue > 0 THEN 1 ELSE -1),
                       !.anim.elapsed = e]

\* one frame of the animation assigned to isFocused, dt milliseconds after the
\* previous one: the value moves along the eased line from startValue to
\* toValue and rests at toValue once the duration has elapsed
Frame(s, dt) ==
    LET a == s.anim
        e == a.elapsed + dt
    IN  IF e >= a.duration
        THEN [s EXCEPT !.isFocused = a.toValue, !.anim = Idle(a.toValue)]
        ELSE [s EXCEPT !.isFocused =
                           a.startValue
                           + ((a.toValue - a.startValue) * Easing(e, a.duration))
                             \div (a.duration * a.duration),
                       !.anim.elapsed = e]

----------------------------------------------------------------------------
(* Initial state and actions *)

\* the state after the first render: the shared values hold 0, the field
\* shows the default value and, with autoFocus, has taken the focus
Init ==
    /\ value \in Values
    /\ given = FALSE
    /\ containerWidth = 0
    /\ cancelButtonWidth = 0
    /\ isFocused = 0
    /\ anim = Idle(0)
    /\ \E autoFocus \in BOOLEAN :
        /\ focused = autoFocus
        /\ pending = IF autoFocus THEN <<"focus">> ELSE <<>>
    /\ text = DefaultText(value)
    /\ error = FALSE
    /\ lastHandler = "none"
    /\ trace = <<>>
    /\ lastLayout = <<>>
    /\ buttonMeasured = FALSE
    /\ reported = <<>>
    /\ lastFocusEvent = "none"

\* the state a handler (or a frame) leaves behind
Commit(s, handler) ==
    /\ containerWidth' = s.containerWidth
    /\ cancelButtonWidth' = s.cancelButtonWidth
    /\ isFocused' = s.isFocused
    /\ anim' = s.anim
    /\ focused' = s.focused
    /\ pending' = s.pending
    /\ error' = (error \/ s.error)
    /\ trace' = s.trace
    /\ lastHandler' = handler

\* the queue of undelivered focus events has room for one more
Room == Len(pending) < MaxPending

\* the user presses the clear affordance, which is there to press when rendered
PressClear ==
    /\ ClearRendered
    /\ Commit(onPressClear(St), "onPressClear")
    /\ given' = FALSE
    /\ UNCHANGED <<value, text, lastLayout, lastFocusEvent, buttonMeasured>>
    /\ reported' = <<>>

\* the user presses the cancel button; the host provided onCancel or not
PressCancel ==
    /\ focused => Room
    /\ \E onCancel \in BOOLEAN :
        /\ Commit(onPressCancel(St, onCancel), "onPressCancel")
        /\ given' = onCancel
    /\ UNCHANGED <<value, text, lastLayout, lastFocusEvent, buttonMeasured>>
    /\ reported' = <<>>

\* a layout pass of the outer container reports its width
ContainerLayout ==
    \E width \in ContainerWidths :
        /\ Commit(onLayout(St, width), "onLayout")
        /\ lastLayout' = <<width>>
        /\ given' = FALSE
        /\ reported' = <<>>
        /\ UNCHANGED <<value, text, lastFocusEvent, buttonMeasured>>

\* a layout pass of the cancel button reports its width
ButtonLayout ==
    \E width \in ButtonWidths :
        /\ Commit(onButtonLayout(St, width), "onButtonLayout")
        /\ buttonMeasured' = TRUE
        /\ reported' = <<width>>
        /\ given' = FALSE
        /\ UNCHANGED <<value, text, lastLayout, lastFocusEvent>>

\* a touch starts in the input container
TouchStart ==
    /\ ~focused => Room
    /\ Commit(focus(St), "focus")
    /\ given' = FALSE
    /\ UNCHANGED <<value, text, lastLayout, lastFocusEvent, buttonMeasured>>
    /\ reported' = <<>>

\* the text field delivers its oldest undelivered event, a focus event; the
\* host provided onFocus or not
InputFocus ==
    /\ pending # <<>> /\ Head(pending) = "focus"
    /\ \E onFocus \in BOOLEAN :
        /\ Commit(onInputFocus([St EXCEPT !.pending = Tail(@)], onFocus),
                  "onInputFocus")
        /\ given' = onFocus
    /\ lastFocusEvent' = "focus"
    /\ UNCHANGED <<value, text, lastLayout, buttonMeasured>>
    /\ reported' = <<>>

\* the text field delivers its oldest undelivered event, a blur event; the
\* host provided onBlur or not
InputBlur ==
    /\ pending # <<>> /\ Head(pending) = "blur"
    /\ \E onBlur \in BOOLEAN :
        /\ Commit(onInputBlur([St EXCEPT !.pending = Tail(@)], onBlur),
                  "onInputBlur")
        /\ given' = onBlur
    /\ lastFocusEvent' = "blur"
    /\ UNCHANGED <<value, text, lastLayout, buttonMeasured>>
    /\ reported' = <<>>

\* the field gains the focus by other means than a touch in the container
NativeFocus ==
    /\ ~focused /\ Room
    /\ Commit([St EXCEPT !.focused = TRUE, !.pending = Append(@, "focus")],
              "none")
    /\ given' = FALSE
    /\ UNCHANGED <<value, text, lastLayout, lastFocusEvent, buttonMeasured>>
    /\ reported' = <<>>

\* the field loses the focus by other means than cancel (keyboard dismissed,
\* another field focused)
NativeBlur ==
    /\ focused /\ Room
    /\ Commit([St EXCEPT !.focused = FALSE, !.pending = Append(@, "blur")],
              "none")
    /\ given' = FALSE
    /\ UNCHANGED <<value, text, lastLayout, lastFocusEvent, buttonMeasured>>
    /\ reported' = <<>>

\* the user edits the text of the focused field: onChangeText={onChangeText}
ChangeText ==
    /\ focused
    /\ \E t \in Texts \ {text} :
        /\ text' = t
        /\ Commit(Call(St, "onChangeText", TRUE, t), "onChangeText")
    /\ given' = FALSE
    /\ UNCHANGED <<value, lastLayout, lastFocusEvent, buttonMeasured>>
    /\ reported' = <<>>

\* the user submits: onSubmitEditing={onSubmitEditing}, provided or not
SubmitEditing ==
    /\ focused
    /\ \E provided \in BOOLEAN :
        /\ Commit(onSubmitEditing(St, provided), "onSubmitEditing")
        /\ given' = provided
    /\ UNCHANGED <<value, text, lastLayout, lastFocusEvent, buttonMeasured>>
    /\ reported' = <<>>

\* the host renders the component with another value; the field, which takes
\* it as defaultValue, keeps its text or shows the new default, as the
\* platform has it
Render ==
    \E v \in Values \ {value} :
        /\ value' = v
        /\ text' \in {text, DefaultText(v)}
        /\ Commit(St, "none")
        /\ given' = FALSE
        /\ reported' = <<>>
        /\ UNCHANGED <<lastLayout, lastFocusEvent, buttonMeasured>>

\* the animation scheduler runs a frame of the animation in flight
AnimationFrame ==
    /\ anim.running
    /\ Commit(Frame(St, FrameMs), "none")
    /\ given' = FALSE
    /\ UNCHANGED <<value, text, lastLayout, lastFocusEvent, buttonMeasured>>
    /\ reported' = <<>>

Next ==
    \/ PressClear
    \/ PressCancel
    \/ ContainerLayout
    \/ ButtonLayout
    \/ TouchStart
    \/ InputFocus
    \/ InputBlur
    \/ NativeFocus
    \/ NativeBlur
    \/ ChangeText
    \/ SubmitEditing
    \/ Render
    \/ AnimationFrame

Spec == Init /\ [][Next]_vars

\* the runtime never idles while work is waiting: an event the text field
\* emitted is delivered, a frame of the animation in flight is run
FairSpec ==
    Spec /\ WF_vars(InputFocus \/ InputBlur \/ AnimationFrame)

----------------------------------------------------------------------------
(* Properties *)

\* the calls of a trace, without the targets observed
Calls(tr) == [i \in DOMAIN tr |-> <<tr[i].call, tr[i].arg>>]

\* what a handler of a focus or blur event does: the external handler first,
\* if provided, seeing the target the previous transition left, then the
\* animation toward `toValue`
Transition(callback, toValue) ==
    /\ trace' = (IF given'
                 THEN <<[call |-> callback, arg |-> "event",
                         target |-> anim.toValue]>>
                 ELSE <<>>)
                \o <<[call |-> "withTiming", arg |-> "-", target |-> toValue]>>
    /\ anim'.running /\ anim'.toValue = toValue /\ anim'.startValue = isFocused
    /\ isFocused' = isFocused

\* C1: pressing cancel calls onChangeText(absent) once, then onCancel once if
\* it was provided, then removes the focus from the text field; a field that
\* was focused emits a blur event, whose handler calls onBlur (if provided)
\* and then starts the animation of isFocused toward 0.
C1_CancelSequence ==
    [][/\ lastHandler' = "onPressCancel" =>
            /\ Calls(trace') =
                   <<<<"onChangeText", ABSENT>>>>
                   \o (IF given' THEN <<<<"onCancel", "-">>>> ELSE <<>>)
                   \o <<<<"blur", "-">>>>
            /\ ~focused'
            /\ pending' = IF focused THEN Append(pending, "blur") ELSE pending
       /\ lastHandler' = "onInputBlur" =>
            /\ Head(pending) = "blur" /\ pending' = Tail(pending)
            /\ Transition("onBlur", 0)
      ]_vars

\* C1 witness: cancel was pressed on a focused field with onCancel provided
C1_Witness ==
    /\ lastHandler = "onPressCancel" /\ given
    /\ Len(trace) = 3 /\ ~focused
    /\ pending # <<>> /\ pending[Len(pending)] = "blur"

\* C2: pressing clear calls onChangeText(absent) exactly once and changes
\* nothing else: no other call, the field keeps its focus, no blur event is
\* emitted, isFocused, its animation and both widths stay as they were.
C2_ClearFrame ==
    [][lastHandler' = "onPressClear" =>
         /\ Calls(trace') = <<<<"onChangeText", ABSENT>>>>
         /\ UNCHANGED <<focused, pending, isFocused, anim, containerWidth,
                        cancelButtonWidth, error>>
      ]_vars

\* C2 witness: clear was pressed on a focused field during an animation
C2_Witness ==
    /\ lastHandler = "onPressClear" /\ Len(trace) = 1
    /\ focused /\ anim.running /\ isFocused # 0 /\ isFocused # Unit

\* the animation has settled: none is in flight and no focus event is waiting
Settled == ~anim.running /\ pending = <<>>

C5_ClearFollowsText ==
    [][text' # text => (ClearRendered' <=> text' # "")]_vars

\* C6: the effective width is containerWidth - isFocused * (cancelButtonWidth
\* + 10) for every containerWidth, cancelButtonWidth and isFocused: the full
\* width at 0, containerWidth - cancelButtonWidth - 10 at 1, linear in between
\* (container 300 and button 80 give 300 and 210).
C6_EffectiveWidth ==
    LET w == animatedStyle(St).width
    IN  /\ w = containerWidth * Unit - isFocused * (cancelButtonWidth + 10)
        /\ isFocused = 0 => w = containerWidth * Unit
        /\ isFocused = Unit =>
               w = (containerWidth - cancelButtonWidth - 10) * Unit
        /\ containerWidth = 300 /\ cancelButtonWidth = 80 =>
               /\ isFocused = 0 => w = 300 * Unit
               /\ isFocused = Unit => w = 210 * Unit

\* C6 witness: container 300, button 80, half way through the animation
C6_Witness ==
    /\ containerWidth = 300 /\ cancelButtonWidth = 80
    /\ isFocused * 2 = Unit /\ anim.running
    /\ animatedStyle(St).width * 2 = (300 + 210) * Unit

\* C7: the handler of a focus event calls onFocus (if provided) before it
\* starts the animation toward 1, the handler of a blur event calls onBlur (if
\* provided) before it starts the animation toward 0, and the external handler
\* sees the target the previous transition left.
C7_CallbackBeforeAnimation ==
    [][/\ lastHandler' = "onInputFocus" =>
            Transition("onFocus", Unit) /\ anim.toValue = 0
       /\ lastHandler' = "onInputBlur" =>
            Transition("onBlur", 0) /\ anim.toValue = Unit
      ]_vars

\* C7 witness: a focus event was handled with onFocus provided, which ran
\* while the target was still 0
C7_Witness ==
    /\ lastHandler = "onInputFocus" /\ given
    /\ Len(trace) = 2 /\ trace[1].call = "onFocus" /\ trace[1].target = 0
    /\ trace[2].call = "withTiming" /\ anim.toValue = Unit

\* C8: a handler whose optional callback is absent skips the call, throws
\* nothing and does the rest: focus and blur start the animation, cancel calls
\* onChangeText(absent) and removes the focus, submit does nothing.
C8_AbsentCallbackSkipped ==
    [][/\ ~error'
       /\ ~given' =>
            /\ lastHandler' = "onInputFocus" =>
                   /\ Calls(trace') = <<<<"withTiming", "-">>>>
                   /\ anim'.running /\ anim'.toValue = Unit
            /\ lastHandler' = "onInputBlur" =>
                   /\ Calls(trace') = <<<<"withTiming", "-">>>>
                   /\ anim'.running /\ anim'.toValue = 0
            /\ lastHandler' = "onPressCancel" =>
                   /\ Calls(trace') = <<<<"onChangeText", ABSENT>>, <<"blur", "-">>>>
                   /\ ~focused'
                   /\ focused => pending' = Append(pending, "blur")
            /\ lastHandler' = "onSubmitEditing" => trace' = <<>>
      ]_vars

\* C8 witness: cancel was pressed on a focused field with onCancel absent
C8_Witness ==
    /\ lastHandler = "onPressCancel" /\ ~given /\ ~error
    /\ Len(trace) = 2 /\ ~focused
    /\ pending # <<>> /\ pending[Len(pending)] = "blur"

\* C9: the opacity of the widget is 0 exactly when containerWidth is 0 and 1
\* otherwise, and containerWidth is the width the last layout pass of the
\* outer container reported, 0 before any pass.
C9_OpacityFromLayout ==
    LET measured == IF lastLayout = <<>> THEN 0 ELSE lastLayout[1]
    IN  /\ containerWidth = measured
        /\ wrapperStyle(St).opacity = IF measured = 0 THEN 0 ELSE 1

\* C9 witness: a layout pass reported a non-zero width and the widget shows
C9_Witness ==
    /\ lastLayout = <<300>> /\ containerWidth = 300
    /\ wrapperStyle(St).opacity = 1

C12_FirstPassOnly ==
    [][lastHandler' = "onButtonLayout" =>
         cancelButtonWidth' = IF buttonMeasured THEN cancelButtonWidth
                              ELSE reported'[1]
      ]_vars

\* C12 amended: a layout pass of the cancel button stores the width it reports
\* while the stored width is 0 and is ignored once it is not: the stored width
\* is that of the first pass that reported a non-zero width, 0 until then.
C12_FirstNonZeroPass ==
    [][lastHandler' = "onButtonLayout" =>
         cancelButtonWidth' = IF cancelButtonWidth # 0 THEN cancelButtonWidth
                              ELSE reported'[1]
      ]_vars

\* C12 witness: a pass reporting 0 came after the width 80 was stored, and was
\* ignored
C12_Witness ==
    /\ lastHandler = "onButtonLayout" /\ buttonMeasured
    /\ reported = <<0>> /\ cancelButtonWidth = 80

\* C13: once cancelButtonWidth is non-zero no step changes it (stored as 80 it
\* stays 80 when a later pass reports 90), and only the layout callback of the
\* cancel button ever changes it.
C13_ButtonWidthStable ==
    [][/\ cancelButtonWidth # 0 => cancelButtonWidth' = cancelButtonWidth
       /\ cancelButtonWidth' # cancelButtonWidth =>
              lastHandler' = "onButtonLayout"
      ]_vars

\* C13 witness: a pass reported 90 after 80 was stored, and 80 is kept
C13_Witness ==
    /\ lastHandler = "onButtonLayout" /\ reported = <<90>>
    /\ cancelButtonWidth = 80

\* the target of the last focus event handled (0 before any)
LastTarget == IF lastFocusEvent = "focus" THEN Unit ELSE 0

\* the least and the greatest of two numbers
Lower(a, b) == IF a <= b THEN a ELSE b
Upper(a, b) == IF a <= b THEN b ELSE a

C15_FocusedInRange ==
    /\ isFocused \in 0..Unit
    /\ animatedStyle(St).borderWidth = isFocused

\* C15 witness: an animation is in flight, isFocused is strictly between 0 and
\* 1 and so is the border width
C15_Witness ==
    /\ anim.running /\ anim.elapsed > 0
    /\ isFocused > 0 /\ isFocused < Unit
    /\ animatedStyle(St).borderWidth = isFocused
    /\ containerWidth # 0 /\ cancelButtonWidth # 0

\* C16: once every focus or blur handler has completed (no event the text
\* field emitted is waiting for its handler), the target of the animation of
\* isFocused agrees with the focus of the text field: it is 1 exactly when the
\* field is focused and 0 exactly when it is blurred, whatever changed the
\* focus (tap, autoFocus, cancel, another focus or blur of the field)
C16_TargetAgreesWithFocus ==
    pending = <<>> =>
        /\ anim.toValue = Unit <=> focused
        /\ anim.toValue = 0 <=> ~focused

\* C16 witness: the field lost the focus while isFocused was above 0 and its
\* blur handler has completed with no event left waiting: the field is
\* blurred and the target is 0
C16_Witness ==
    /\ pending = <<>> /\ lastHandler = "onInputBlur"
    /\ lastFocusEvent = "blur" /\ ~focused /\ anim.toValue = 0
    /\ anim.startValue # 0

\* C17: pressing cancel while the text field is already blurred still calls
\* onChangeText(absent) and then onCancel (if provided), and starts no
\* transition: no blur event is emitted (so onBlur is not invoked for it), the
\* handler calls neither onBlur nor withTiming, the animation and isFocused
\* are left as they were, and with no earlier event waiting the target stays
\* 0, isFocused being 0 already when no animation is in flight
C17_CancelWhileBlurred ==
    [][lastHandler' = "onPressCancel" /\ ~focused =>
         /\ Calls(trace') =
                <<<<"onChangeText", ABSENT>>>>
                \o (IF given' THEN <<<<"onCancel", "-">>>> ELSE <<>>)
                \o <<<<"blur", "-">>>>
         /\ UNCHANGED <<focused, pending, isFocused, anim>>
         /\ pending = <<>> =>
                /\ anim'.toValue = 0
                /\ ~anim'.running => isFocused' = 0
      ]_vars

\* C17 witness: cancel was pressed, with onCancel provided, on a field that
\* had lost the focus and whose animation toward 0 was in flight
C17_Witness ==
    /\ lastHandler = "onPressCancel" /\ given /\ Len(trace) = 3
    /\ ~focused /\ pending = <<>>
    /\ anim.running /\ anim.toValue = 0 /\ isFocused > 0

\* C18: in every reachable state the effective width of the input container
\* lies between containerWidth - cancelButtonWidth - 10 and containerWidth
\* inclusive, also while an animation is in flight and when either width is
\* measured again during it; it never exceeds the measured container width
C18_WidthBounded ==
    LET w == animatedStyle(St).width
    IN  /\ w >= (containerWidth - cancelButtonWidth - 10) * Unit
        /\ w <= containerWidth * Unit

\* C18 witness: the container was measured (300, next to a button of 80) by a
\* layout pass during the animation, and the width is strictly inside the
\* bounds
C18_Witness ==
    /\ lastHandler = "onLayout" /\ lastLayout = <<300>>
    /\ containerWidth = 300 /\ cancelButtonWidth = 80
    /\ anim.running /\ anim.elapsed > 0
    /\ animatedStyle(St).width > 210 * Unit
    /\ animatedStyle(St).width < 300 * Unit

====
